---- MODULE Spec2Model ----
(***************************************************************************)
(* A model of todolist.py: the Task record, the ToDoList store with its    *)
(* add/remove/edit/query/save/load operations, and the demo_cli command    *)
(* loop that drives the store.                                             *)
(*                                                                         *)
(* Python lists are 0-based and TLA+ sequences 1-based: every index that   *)
(* is an input or an output of the program is kept 0-based, and position   *)
(* index of a list is element index + 1 of the sequence.                   *)
(*                                                                         *)
(* A Task has no __eq__, so Python compares tasks by object identity; the  *)
(* field id of a task is that identity.  It is not one of the task's data  *)
(* fields and is never written to a file.                                  *)
(***************************************************************************)
EXTENDS Integers, Sequences, FiniteSets, TLC

VARIABLES
    tasks,    \* ToDoList.tasks: the sequence of Task objects of the store
    fs,       \* the files on disk: path -> Absent or a JSON array of objects
    saved,    \* path -> the tasks the store held when save last wrote the path
    steps,    \* number of operations performed so far
    op,       \* name of the last operation performed ("" initially)
    args,     \* the arguments of the last operation
    ret,      \* what the last operation returned
    raised,   \* the exception the last operation let escape ("" if none)
    pre,      \* the value of tasks before the last operation
    pc,       \* demo_cli: position of the command loop
    view,     \* demo_cli: listing now on the screen: "none", "all", "pending"
    shown,    \* demo_cli: ids of the tasks of that listing, in displayed order
    screen,   \* demo_cli: view and shown as they were when the last command was typed
    master,   \* demo_cli: master_index computed by the last command (-1: none)
    target    \* demo_cli: id of the task the last command acted on (-1: none)

vars == <<tasks, fs, saved, steps, op, args, ret, raised, pre, pc, view, shown, screen,
          master, target>>

cliVars == <<pc, view, shown, screen, master, target>>

----------------------------------------------------------------------------
(* Bounds of the exploration *)

MaxSteps == 3

(* Program constants *)

DefaultPriority == 2
LowestPriority == 1
HighestPriority == 3

----------------------------------------------------------------------------
(* Input domains *)

\* what datetime.now().isoformat() may return: the wall clock is not
\* monotonic, so any reading may follow any other
Times == {0, 1}

None == <<>>
Some(v) == <<v>>

Paths == {"tasks.json", "x.json"}

\* what a path holds: nothing, or a JSON array of objects
Absent == [exists |-> FALSE, data |-> <<>>]
File(data) == [exists |-> TRUE, data |-> data]

\* (title, note, priority, assignee) given to the Task constructor
TaskArgs ==
    { <<"a", "", 2, "Unassigned">>,
      <<"b", "n", 5, "x">>,
      <<"a", "n", 0, "x">>,
      <<"b", "", 4, "Unassigned">> }

\* (title, note, priority, assignee) given to edit_task; None keeps the field
EditArgs ==
    { <<None, None, None, None>>,
      <<Some("b"), None, None, None>>,
      <<None, Some("n"), Some(4), None>>,
      <<None, None, Some(0), Some("x")>>,
      <<Some("a"), Some(""), Some(2), Some("Unassigned")>>,
      <<Some("b"), Some("n"), Some(-1), Some("x")>> }

\* Files that may lie on disk as tasks.json before the program starts
FullA == [title |-> "a", note |-> "", priority |-> 2, assignee |-> "Unassigned",
          done |-> FALSE, created_at |-> 0]
FullB == [title |-> "b", note |-> "n", priority |-> 5, assignee |-> "x",
          done |-> TRUE, created_at |-> 0]
OnlyTitle == [title |-> "a"]
LowPrio == [title |-> "b", priority |-> -1, done |-> TRUE]
NoTitle == [note |-> "n", priority |-> 1]

InitFiles ==
    { Absent,
      File(<<FullA, FullB, FullA>>),
      File(<<FullB, OnlyTitle, LowPrio>>),
      File(<<FullA, NoTitle, FullB>>) }

----------------------------------------------------------------------------
(* class Task *)

min(a, b) == IF a <= b THEN a ELSE b
max(a, b) == IF a >= b THEN a ELSE b

\* Task.__init__ storing the priority as given
Task_unclamped(id, title, note, priority, assignee, now) ==
    [id |-> id, title |-> title, note |-> note, priority |-> priority,
     assignee |-> assignee, done |-> FALSE, created_at |-> now]

Task(id, title, note, priority, assignee, now) ==
    [id |-> id,
     title |-> title,
     note |-> note,
     priority |-> max(LowestPriority, min(priority, HighestPriority)),
     assignee |-> assignee,
     done |-> FALSE,
     created_at |-> now]

mark_done(t) == [t EXCEPT !.done = TRUE]

mark_undone(t) == [t EXCEPT !.done = FALSE]

to_dict(t) ==
    [title |-> t.title, note |-> t.note, priority |-> t.priority,
     assignee |-> t.assignee, done |-> t.done, created_at |-> t.created_at]

\* dict.get(key, default)
get(data, key, default) == IF key \in DOMAIN data THEN data[key] ELSE default

\* data["title"] raises KeyError when the key is missing
HasTitle(data) == "title" \in DOMAIN data

\* from_dict that leaves done and created_at as the constructor set them
from_dict_fresh(data, id, now) ==
    Task(id, data["title"], get(data, "note", ""),
         get(data, "priority", DefaultPriority),
         get(data, "assignee", "Unassigned"), now)

\* from_dict for a record that has a title; id is the identity of the new
\* object, now the clock reading of the call
from_dict(data, id, now) ==
    LET t == Task(id, data["title"], get(data, "note", ""),
                  get(data, "priority", DefaultPriority),
                  get(data, "assignee", "Unassigned"), now)
    IN [t EXCEPT !.done = get(data, "done", FALSE),
                 !.created_at = get(data, "created_at", now)]

----------------------------------------------------------------------------
(* Object identity *)

Ids(ts) == { ts[i].id : i \in 1..Len(ts) }

\* the identity of a newly allocated object: one that no live object has
NewId(used) ==
    CHOOSE n \in 0..Cardinality(used) :
        n \notin used /\ \A m \in 0..(n - 1) : m \in used

----------------------------------------------------------------------------
(* class ToDoList *)

add_task(ts, task) == Append(ts, task)

\* del that deletes the element after the one asked for (the last one if none)
RemoveAt_next(ts, index) ==
    [j \in 1..(Len(ts) - 1) |-> IF j <= index + 1 THEN ts[j] ELSE ts[j + 1]]

RemoveAt(ts, index) ==
    [j \in 1..(Len(ts) - 1) |-> IF j <= index THEN ts[j] ELSE ts[j + 1]]

\* remove_task testing only index < len: del takes a negative index from the end
remove_task_negative(ts, index) ==
    IF index < Len(ts) /\ Len(ts) > 0
    THEN [tasks |-> RemoveAt(ts, IF index < 0 THEN index + Len(ts) ELSE index),
          ret |-> TRUE]
    ELSE [tasks |-> ts, ret |-> FALSE]

remove_task(ts, index) ==
    IF 0 <= index /\ index < Len(ts)
    THEN [tasks |-> RemoveAt(ts, index), ret |-> TRUE]
    ELSE [tasks |-> ts, ret |-> FALSE]

\* get_tasks whose filter keeps the completed tasks
get_tasks_completed(ts, show_completed) ==
    IF show_completed THEN ts ELSE SelectSeq(ts, LAMBDA t : t.done)

get_tasks(ts, show_completed) ==
    IF show_completed THEN ts ELSE SelectSeq(ts, LAMBDA t : ~t.done)

\* edit_task writing the assignee into the note
edit_fields_note(t, title, note, priority, assignee) ==
    LET t1 == IF title # None THEN [t EXCEPT !.title = title[1]] ELSE t
        t2 == IF note # None THEN [t1 EXCEPT !.note = note[1]] ELSE t1
        t3 == IF priority # None
              THEN [t2 EXCEPT !.priority =
                        max(LowestPriority, min(priority[1], HighestPriority))]
              ELSE t2
        t4 == IF assignee # None THEN [t3 EXCEPT !.note = assignee[1]] ELSE t3
    IN t4

edit_fields(t, title, note, priority, assignee) ==
    LET t1 == IF title # None THEN [t EXCEPT !.title = title[1]] ELSE t
        t2 == IF note # None THEN [t1 EXCEPT !.note = note[1]] ELSE t1
        t3 == IF priority # None
              THEN [t2 EXCEPT !.priority =
                        max(LowestPriority, min(priority[1], HighestPriority))]
              ELSE t2
        t4 == IF assignee # None THEN [t3 EXCEPT !.assignee = assignee[1]] ELSE t3
    IN t4

edit_task(ts, index, title, note, priority, assignee) ==
    IF 0 <= index /\ index < Len(ts)
    THEN [tasks |-> [ts EXCEPT ![index + 1] =
                        edit_fields(ts[index + 1], title, note, priority, assignee)],
          ret |-> TRUE]
    ELSE [tasks |-> ts, ret |-> FALSE]

\* json.dump([t.to_dict() for t in self.tasks], f)
save(ts) == File([i \in 1..Len(ts) |-> to_dict(ts[i])])

\* [Task.from_dict(d) for d in data]: the list built so far, and whether a
\* record raised KeyError.  live are the identities of the objects alive
\* during the call, nows the clock reading at each record.
RECURSIVE ListComp(_, _, _, _, _)
ListComp(data, k, acc, live, nows) ==
    IF k > Len(data) THEN [ok |-> TRUE, items |-> acc]
    ELSE IF ~HasTitle(data[k]) THEN [ok |-> FALSE, items |-> acc]
    ELSE LET id == NewId(live \cup Ids(acc))
         IN ListComp(data, k + 1, Append(acc, from_dict(data[k], id, nows[k])),
                     live, nows)

\* load that appends each record to self.tasks as it is read
load_partial(ts, content, nows) ==
    IF ~content.exists
    THEN [tasks |-> <<>>, raised |-> ""]
    ELSE LET r == ListComp(content.data, 1, <<>>, Ids(ts), nows)
         IN [tasks |-> r.items, raised |-> IF r.ok THEN "" ELSE "KeyError"]

\* load that keeps the current tasks when the file does not exist
load_keep(ts, content, nows) ==
    IF ~content.exists
    THEN [tasks |-> ts, raised |-> ""]
    ELSE LET r == ListComp(content.data, 1, <<>>, Ids(ts), nows)
         IN IF r.ok THEN [tasks |-> r.items, raised |-> ""]
            ELSE [tasks |-> ts, raised |-> "KeyError"]

load(ts, content, nows) ==
    IF ~content.exists
    THEN [tasks |-> <<>>, raised |-> ""]
    ELSE LET r == ListComp(content.data, 1, <<>>, Ids(ts), nows)
         IN IF r.ok THEN [tasks |-> r.items, raised |-> ""]
            ELSE [tasks |-> ts, raised |-> "KeyError"]

----------------------------------------------------------------------------
(* Calls on a ToDoList made directly by a client of the class *)

\* the clock readings of one load: one per record of the file
Clock(content) == [1..Len(content.data) -> Times]

Api(name, a, r, e, ts) ==
    /\ pc = "api"
    /\ steps < MaxSteps
    /\ steps' = steps + 1
    /\ op' = name
    /\ args' = a
    /\ ret' = r
    /\ raised' = e
    /\ pre' = tasks
    /\ tasks' = ts
    /\ UNCHANGED cliVars

\* todo.add_task(Task(title, note, priority, assignee))
AddTask ==
    \E a \in TaskArgs, now \in Times :
        /\ Api("add_task", a, "None", "",
               add_task(tasks, Task(NewId(Ids(tasks)), a[1], a[2], a[3], a[4], now)))
        /\ UNCHANGED <<fs, saved>>

RemoveTask ==
    \E index \in -1..Len(tasks) :
        LET r == remove_task(tasks, index)
        IN /\ Api("remove_task", <<index>>, r.ret, "", r.tasks)
           /\ UNCHANGED <<fs, saved>>

EditTask ==
    \E index \in -1..Len(tasks), a \in EditArgs :
        LET r == edit_task(tasks, index, a[1], a[2], a[3], a[4])
        IN /\ Api("edit_task", <<index>> \o a, r.ret, "", r.tasks)
           /\ UNCHANGED <<fs, saved>>

\* todo.tasks[index].mark_done()
MarkDone ==
    \E index \in 0..(Len(tasks) - 1) :
        /\ Api("mark_done", <<index>>, "None", "",
               [tasks EXCEPT ![index + 1] = mark_done(tasks[index + 1])])
        /\ UNCHANGED <<fs, saved>>

\* todo.tasks[index].mark_undone()
MarkUndone ==
    \E index \in 0..(Len(tasks) - 1) :
        /\ Api("mark_undone", <<index>>, "None", "",
               [tasks EXCEPT ![index + 1] = mark_undone(tasks[index + 1])])
        /\ UNCHANGED <<fs, saved>>

GetTasks ==
    \E show_completed \in BOOLEAN :
        /\ Api("get_tasks", <<show_completed>>, get_tasks(tasks, show_completed),
               "", tasks)
        /\ UNCHANGED <<fs, saved>>

Save ==
    \E filename \in Paths :
        /\ Api("save", <<filename>>, "None", "", tasks)
        /\ fs' = [fs EXCEPT ![filename] = save(tasks)]
        /\ saved' = [saved EXCEPT ![filename] = [by_save |-> TRUE, tasks |-> tasks]]

Load ==
    \E filename \in Paths :
        \E nows \in Clock(fs[filename]) :
            LET r == load(tasks, fs[filename], nows)
            IN /\ Api("load", <<filename, fs[filename]>>, "None", r.raised, r.tasks)
               /\ UNCHANGED <<fs, saved>>

Init ==
    /\ tasks = <<>>
    /\ \E f \in InitFiles : fs = [p \in Paths |-> IF p = "tasks.json" THEN f ELSE Absent]
    /\ saved = [p \in Paths |-> [by_save |-> FALSE, tasks |-> <<>>]]
    /\ steps = 0
    /\ op = ""
    /\ args = <<>>
    /\ ret = "None"
    /\ raised = ""
    /\ pre = <<>>
    /\ pc = "api"
    /\ view = "none"
    /\ shown = <<>>
    /\ screen = [view |-> "none", shown |-> <<>>]
    /\ master = -1
    /\ target = -1

----------------------------------------------------------------------------
(* demo_cli: what the user types, and the conversions applied to it *)

\* str.strip() on the texts the user may type
strip(s) == IF s = " b " THEN "b" ELSE s

\* int(s): the texts that are numbers, and their values; any other text
\* raises ValueError
Numerals == <<"0", "1", "2", "3", "4", "5">>
IsNumber(s) == s = "-1" \/ \E n \in 1..Len(Numerals) : Numerals[n] = s
int(s) == IF s = "-1" THEN -1 ELSE (CHOOSE n \in 1..Len(Numerals) : Numerals[n] = s) - 1

\* x or default
Or(x, default) == IF x = "" THEN default ELSE x

\* x if x else None
OrNone(x) == IF x = "" THEN None ELSE Some(x)

\* answers to the prompts of add: title, note, priority, assignee
CliAddInputs ==
    { <<"a", "", "", "">>,
      <<" b ", "n", "5", "x">>,
      <<"a", "n", "abc", "x">>,
      <<"b", "", "0", "">> }

\* answers to the prompts of edit: title, note, priority, assignee
CliEditInputs ==
    { <<"", "", "", "">>,
      <<"b", "", "", "">>,
      <<"", "n", "4", "">>,
      <<"a", "n", "abc", "x">>,
      <<"", "", "0", "x">> }

\* answers to an index prompt
IndexInputs == {"abc", "-1", "0", "1", "2", "3"}

\* equality of a Task class that compares the fields (a dataclass-style __eq__)
TaskEq_fields(t, u) == to_dict(t) = to_dict(u)

\* Python compares two Task objects by identity: Task defines no __eq__
TaskEq(t, u) == t.id = u.id

\* list.index(x): position of the first element equal to x
index(ts, x) ==
    CHOOSE j \in 0..(Len(ts) - 1) :
        /\ TaskEq(ts[j + 1], x)
        /\ \A k \in 0..(j - 1) : ~TaskEq(ts[k + 1], x)

\* show_tasks: the tasks printed, numbered from 0 in this order
show_tasks(ts, show_completed) ==
    LET l == get_tasks(ts, show_completed)
    IN [i \in 1..Len(l) |-> l[i].id]

----------------------------------------------------------------------------
(* demo_cli: the command loop *)

InitCLI ==
    /\ tasks = <<>>
    /\ \E f \in InitFiles : fs = [p \in Paths |-> IF p = "tasks.json" THEN f ELSE Absent]
    /\ saved = [p \in Paths |-> [by_save |-> FALSE, tasks |-> <<>>]]
    /\ steps = 0
    /\ op = ""
    /\ args = <<>>
    /\ ret = "None"
    /\ raised = ""
    /\ pre = <<>>
    /\ pc = "start"
    /\ view = "none"
    /\ shown = <<>>
    /\ screen = [view |-> "none", shown |-> <<>>]
    /\ master = -1
    /\ target = -1

\* todo = ToDoList(); todo.load(filename)
CliStart ==
    /\ pc = "start"
    /\ \E nows \in Clock(fs["tasks.json"]) :
        LET r == load(tasks, fs["tasks.json"], nows)
        IN /\ tasks' = r.tasks
           /\ raised' = r.raised
           /\ pc' = IF r.raised = "" THEN "loop" ELSE "crashed"
    /\ op' = "start"
    /\ args' = <<>>
    /\ ret' = "None"
    /\ pre' = tasks
    /\ steps' = steps + 1
    /\ UNCHANGED <<fs, saved, view, shown, screen, master, target>>

\* one command of the loop that is not a listing: name, answers typed,
\* message printed, the resulting tasks, master_index and the task acted on
Cmd(name, a, msg, ts, m, tgt) ==
    /\ pc = "loop"
    /\ steps < MaxSteps
    /\ steps' = steps + 1
    /\ op' = name
    /\ args' = a
    /\ ret' = msg
    /\ raised' = ""
    /\ pre' = tasks
    /\ tasks' = ts
    /\ screen' = [view |-> view, shown |-> shown]
    /\ view' = "none"
    /\ shown' = <<>>
    /\ master' = m
    /\ target' = tgt

CmdAdd ==
    \E a \in CliAddInputs, now \in Times :
        LET title == strip(a[1])
            note == strip(a[2])
            pr == Or(strip(a[3]), "2")
            assignee == Or(strip(a[4]), "Unassigned")
            pr_num == IF IsNumber(pr) THEN int(pr) ELSE 2
            task == Task(NewId(Ids(tasks)), title, note, pr_num, assignee, now)
        IN /\ Cmd("add", a, "Added:", add_task(tasks, task), -1, task.id)
           /\ pc' = pc
           /\ UNCHANGED <<fs, saved>>

\* list and list_pending
Listing(name, show_completed) ==
    /\ pc = "loop"
    /\ steps < MaxSteps
    /\ steps' = steps + 1
    /\ op' = name
    /\ args' = <<>>
    /\ ret' = IF get_tasks(tasks, show_completed) = <<>>
              THEN "No tasks to show." ELSE "listing"
    /\ raised' = ""
    /\ pre' = tasks
    /\ screen' = [view |-> view, shown |-> shown]
    /\ view' = IF show_completed THEN "all" ELSE "pending"
    /\ shown' = show_tasks(tasks, show_completed)
    /\ master' = -1
    /\ target' = -1
    /\ UNCHANGED <<tasks, fs, saved, pc>>

CmdList == Listing("list", TRUE)

CmdListPending == Listing("list_pending", FALSE)

\* done and undone
Mark(name, done, msg) ==
    \E idx \in IndexInputs :
        /\ IF ~IsNumber(strip(idx))
           THEN Cmd(name, <<idx>>, "Please enter a number.", tasks, -1, -1)
           ELSE LET i == int(strip(idx))
                    l == get_tasks(tasks, TRUE)
                IN IF 0 <= i /\ i < Len(l)
                   THEN LET master_index == index(tasks, l[i + 1])
                        IN Cmd(name, <<idx>>, msg,
                               [tasks EXCEPT ![master_index + 1] =
                                    IF done THEN mark_done(@) ELSE mark_undone(@)],
                               master_index, tasks[master_index + 1].id)
                   ELSE Cmd(name, <<idx>>, "Invalid index.", tasks, -1, -1)
        /\ pc' = pc
        /\ UNCHANGED <<fs, saved>>

CmdDone == Mark("done", TRUE, "Marked done:")

CmdUndone == Mark("undone", FALSE, "Marked undone:")

CmdEdit ==
    \E idx \in IndexInputs, a \in CliEditInputs :
        /\ IF ~IsNumber(strip(idx))
           THEN Cmd("edit", <<idx>>,
                    "Please enter numbers for index/priority when required.",
                    tasks, -1, -1)
           ELSE LET i == int(strip(idx))
                    l == get_tasks(tasks, TRUE)
                IN IF 0 <= i /\ i < Len(l)
                   THEN LET master_index == index(tasks, l[i + 1])
                        IN IF a[3] # "" /\ ~IsNumber(a[3])
                           THEN Cmd("edit", <<idx>> \o a,
                                    "Please enter numbers for index/priority when required.",
                                    tasks, master_index, -1)
                           ELSE Cmd("edit", <<idx>> \o a, "Edited:",
                                    edit_task(tasks, master_index, OrNone(a[1]),
                                              OrNone(a[2]),
                                              IF a[3] # "" THEN Some(int(a[3])) ELSE None,
                                              OrNone(a[4])).tasks,
                                    master_index, tasks[master_index + 1].id)
                   ELSE Cmd("edit", <<idx>>, "Invalid index.", tasks, -1, -1)
        /\ pc' = pc
        /\ UNCHANGED <<fs, saved>>

CmdRemove ==
    \E idx \in IndexInputs :
        /\ IF ~IsNumber(strip(idx))
           THEN Cmd("remove", <<idx>>, "Please enter a number.", tasks, -1, -1)
           ELSE LET i == int(strip(idx))
                    l == get_tasks(tasks, TRUE)
                IN IF 0 <= i /\ i < Len(l)
                   THEN LET master_index == index(tasks, l[i + 1])
                            removed == tasks[master_index + 1]
                        IN Cmd("remove", <<idx>>, "Removed:",
                               remove_task(tasks, master_index).tasks,
                               master_index, removed.id)
                   ELSE Cmd("remove", <<idx>>, "Invalid index.", tasks, -1, -1)
        /\ pc' = pc
        /\ UNCHANGED <<fs, saved>>

CmdSave ==
    /\ Cmd("save", <<>>, "Saved to tasks.json.", tasks, -1, -1)
    /\ fs' = [fs EXCEPT !["tasks.json"] = save(tasks)]
    /\ saved' = [saved EXCEPT !["tasks.json"] = [by_save |-> TRUE, tasks |-> tasks]]
    /\ pc' = pc

CmdExit ==
    /\ Cmd("exit", <<>>, "Saved and exiting. Bye!", tasks, -1, -1)
    /\ fs' = [fs EXCEPT !["tasks.json"] = save(tasks)]
    /\ saved' = [saved EXCEPT !["tasks.json"] = [by_save |-> TRUE, tasks |-> tasks]]
    /\ pc' = "exited"

CmdUnknown ==
    /\ Cmd("unknown", <<>>, "Unknown command. Try again.", tasks, -1, -1)
    /\ pc' = pc
    /\ UNCHANGED <<fs, saved>>

NextCLI ==
    \/ CliStart
    \/ CmdAdd
    \/ CmdList
    \/ CmdListPending
    \/ CmdDone
    \/ CmdUndone
    \/ CmdEdit
    \/ CmdRemove
    \/ CmdSave
    \/ CmdExit
    \/ CmdUnknown

SpecCLI == InitCLI /\ [][NextCLI]_vars

Next ==
    \/ AddTask
    \/ RemoveTask
    \/ EditTask
    \/ MarkDone
    \/ MarkUndone
    \/ GetTasks
    \/ Save
    \/ Load

Spec == Init /\ [][Next]_vars

----------------------------------------------------------------------------
(* Properties *)

\* p saturated at the nearer end of 1..3
Clamped(p) == IF p < 1 THEN 1 ELSE IF p > 3 THEN 3 ELSE p

\* t and u agree on the six data fields of a task
SameData(t, u) ==
    /\ t.title = u.title
    /\ t.note = u.note
    /\ t.priority = u.priority
    /\ t.assignee = u.assignee
    /\ t.done = u.done
    /\ t.created_at = u.created_at

\* index is a position of the list ts
ValidIndex(ts, i) == 0 <= i /\ i < Len(ts)

\* the value an optional argument leaves in a field that held old
Written(arg, old) == IF arg = None THEN old ELSE arg[1]

\* C1: every task held by the store has a priority in {1,2,3}: a task added
\* with priority p holds max(1, min(p, 3)), so does a task edited to priority
\* p, and so does every task loaded from a file whose record carries p.
C1_PriorityInRange ==
    /\ \A i \in 1..Len(tasks) : tasks[i].priority \in {1, 2, 3}
    /\ op = "add_task" => tasks[Len(tasks)].priority = Clamped(args[3])
    /\ (op = "edit_task" /\ ValidIndex(pre, args[1]) /\ args[4] # None)
          => tasks[args[1] + 1].priority = Clamped(args[4][1])
    /\ (op = "load" /\ raised = "" /\ args[2].exists)
          => \A k \in 1..Len(tasks) :
                "priority" \in DOMAIN args[2].data[k]
                    => tasks[k].priority = Clamped(args[2].data[k].priority)
    /\ (op = "add_task" /\ args[3] = 0) => tasks[Len(tasks)].priority = 1
    /\ (op = "add_task" /\ args[3] \in {4, 5}) => tasks[Len(tasks)].priority = 3

\* a file with the out-of-range priorities 5 and -1 has been loaded
C1_Witness ==
    /\ op = "load"
    /\ raised = ""
    /\ \E k \in 1..Len(tasks) : get(args[2].data[k], "priority", 2) = 5 /\ tasks[k].priority = 3
    /\ \E k \in 1..Len(tasks) : get(args[2].data[k], "priority", 2) = -1 /\ tasks[k].priority = 1

\* C2: remove_task and edit_task with an index < 0 or >= len return False,
\* raise nothing and leave the store as it was.
C2_InvalidIndexNoChange ==
    (op \in {"remove_task", "edit_task"} /\ ~ValidIndex(pre, args[1]))
        => /\ ret = FALSE
           /\ raised = ""
           /\ tasks = pre

\* remove_task(-1) has been called on a store that holds tasks
C2_Witness ==
    /\ op = "remove_task"
    /\ args[1] = -1
    /\ Len(pre) >= 2
    /\ ret = FALSE

\* the positions of ts whose task is not done
Pending(ts) == { i \in 1..Len(ts) : ~ts[i].done }

\* the k-th smallest element of the set of positions P
Kth(P, k) == CHOOSE i \in P : Cardinality({ j \in P : j < i }) = k - 1

\* C3: get_tasks(True) returns the full sequence, get_tasks(False) exactly
\* the tasks that are not done in their order in the store, and neither
\* changes the store; with 3 tasks of which only index 1 is done,
\* get_tasks(False) is the tasks at indices 0 and 2.
C3_PendingView ==
    op = "get_tasks"
        => /\ tasks = pre
           /\ args[1] => ret = tasks
           /\ ~args[1] =>
                /\ Len(ret) = Cardinality(Pending(tasks))
                /\ \A k \in 1..Len(ret) : ret[k] = tasks[Kth(Pending(tasks), k)]
                /\ (Len(tasks) = 3 /\ Pending(tasks) = {1, 3})
                      => ret = <<tasks[1], tasks[3]>>

\* get_tasks(False) has been called on 3 tasks of which only index 1 is done
C3_Witness ==
    /\ op = "get_tasks"
    /\ ~args[1]
    /\ Len(tasks) = 3
    /\ Pending(tasks) = {1, 3}
    /\ Len(ret) = 2

\* C4: a load of a file that save wrote gives as many tasks as were saved,
\* each with the title, note, priority, assignee, done and created_at of the
\* task saved at its position; save leaves the tasks in memory unchanged.
C4_RoundTrip ==
    /\ (op = "load" /\ saved[args[1]].by_save)
          => /\ raised = ""
             /\ Len(tasks) = Len(saved[args[1]].tasks)
             /\ \A i \in 1..Len(tasks) : SameData(tasks[i], saved[args[1]].tasks[i])
    /\ op = "save" => tasks = pre

\* a saved file of several tasks, one of them done, has been loaded
C4_Witness ==
    /\ op = "load"
    /\ saved[args[1]].by_save
    /\ Len(tasks) >= 2
    /\ \E i \in 1..Len(tasks) : tasks[i].done
    /\ \E i \in 1..Len(tasks) : tasks[i].created_at # 0 \/ tasks[i].priority # 2

\* C5: load of a path that does not exist raises nothing and leaves the
\* store empty, whatever it held before.
C5_LoadAbsent ==
    (op = "load" /\ ~args[2].exists) => (raised = "" /\ tasks = <<>>)

\* a path that does not exist has been loaded into a store that held tasks
C5_Witness ==
    /\ op = "load"
    /\ ~args[2].exists
    /\ pre # <<>>
    /\ tasks = <<>>

\* the file content has a record without the title key
Malformed(content) ==
    content.exists /\ \E k \in 1..Len(content.data) : "title" \notin DOMAIN content.data[k]

\* C6: load of a file with a record that lacks title lets a failure reach the
\* caller, and no task made from a record of that file is in the store
\* afterwards: every task of the store was there before the call.
C6_MalformedLoad ==
    (op = "load" /\ Malformed(args[2]))
        => /\ raised # ""
           /\ Ids(tasks) \subseteq Ids(pre)
           /\ Len(tasks) = Len(pre)

\* a file whose first record is well-formed and whose second lacks title has
\* been loaded into a store that held a task
C6_Witness ==
    /\ op = "load"
    /\ Malformed(args[2])
    /\ "title" \in DOMAIN args[2].data[1]
    /\ pre # <<>>
    /\ raised = "KeyError"

\* the last command marked, edited or removed a task
Acted == ret \in {"Marked done:", "Marked undone:", "Edited:", "Removed:"}

\* C7: when done, edit or remove is given an index i valid in the pending-only
\* listing that is on the screen, the task acted on is the one displayed with
\* number i.
C7_PendingIndexMapped ==
    (/\ op \in {"done", "edit", "remove"}
     /\ Acted
     /\ screen.view = "pending"
     /\ ValidIndex(screen.shown, int(strip(args[1]))))
        => target = screen.shown[int(strip(args[1])) + 1]

\* C8: edit_task with a valid index returns True and writes on the task at
\* that index exactly the fields whose argument is not None, the priority
\* clamped; the other fields of the task, done, created_at, every other task
\* and the length and order of the sequence are unchanged.
C8_EditFrame ==
    (op = "edit_task" /\ ValidIndex(pre, args[1]))
        => LET i == args[1] + 1
           IN /\ ret = TRUE
              /\ Len(tasks) = Len(pre)
              /\ \A j \in 1..Len(pre) : j # i => tasks[j] = pre[j]
              /\ tasks[i].title = Written(args[2], pre[i].title)
              /\ tasks[i].note = Written(args[3], pre[i].note)
              /\ tasks[i].priority =
                    (IF args[4] = None THEN pre[i].priority ELSE Clamped(args[4][1]))
              /\ tasks[i].assignee = Written(args[5], pre[i].assignee)
              /\ tasks[i].done = pre[i].done
              /\ tasks[i].created_at = pre[i].created_at
              /\ tasks[i].id = pre[i].id

\* a done task among several has had its assignee and its priority edited,
\* its title and note kept
C8_Witness ==
    /\ op = "edit_task"
    /\ ValidIndex(pre, args[1])
    /\ Len(pre) >= 2
    /\ args[2] = None /\ args[3] = None /\ args[4] = Some(0) /\ args[5] # None
    /\ pre[args[1] + 1].done
    /\ pre[args[1] + 1].assignee # args[5][1]
    /\ tasks[args[1] + 1].priority = 1

\* C9: remove_task with a valid index i returns True and deletes exactly the
\* element at i: the elements before i stay, each element after i moves one
\* position down, no task changes; add_task appends at the end.
C9_RemoveShifts ==
    /\ (op = "remove_task" /\ ValidIndex(pre, args[1]))
          => /\ ret = TRUE
             /\ Len(tasks) = Len(pre) - 1
             /\ \A j \in 1..Len(pre) :
                    /\ j < args[1] + 1 => tasks[j] = pre[j]
                    /\ j > args[1] + 1 => tasks[j - 1] = pre[j]
    /\ op = "add_task"
          => /\ Len(tasks) = Len(pre) + 1
             /\ \A j \in 1..Len(pre) : tasks[j] = pre[j]
             /\ tasks[Len(tasks)].title = args[1]
             /\ tasks[Len(tasks)].id \notin Ids(pre)

\* the middle task of three has been removed
C9_Witness ==
    /\ op = "remove_task"
    /\ Len(pre) = 3
    /\ args[1] = 1
    /\ Len(tasks) = 2
    /\ pre[1] # pre[2] /\ pre[2] # pre[3]

\* C10: in done, undone, edit and remove with an index i of the full list,
\* master_index is i, so the task acted on is the one at position i, also when
\* an earlier task has the same field values; the tasks of the store are
\* distinct objects.
C10_MasterIndex ==
    /\ \A i, j \in 1..Len(tasks) : i # j => tasks[i].id # tasks[j].id
    /\ (/\ op \in {"done", "undone", "edit", "remove"}
        /\ IsNumber(strip(args[1]))
        /\ ValidIndex(pre, int(strip(args[1]))))
          => /\ master = int(strip(args[1]))
             /\ Acted => target = pre[master + 1].id
             /\ \A j \in 1..Len(pre) :
                    (j # master + 1 /\ op # "remove") => tasks[j] = pre[j]

\* done has been given the index of a task that has the same field values as
\* an earlier task
C10_Witness ==
    /\ op = "done"
    /\ master = 2
    /\ Len(pre) = 3
    /\ to_dict(pre[1]) = to_dict(pre[3])
    /\ tasks[3].done /\ ~tasks[1].done

====
